---- MODULE Spec2Model ----
(***************************************************************************)
(* Model of the StockList component of the Cotacao frontend: the ticker   *)
(* search (handleSearch / fetchStockData), the watchlist state             *)
(* (stocksList) and the periodic refresh (useEffect + setInterval).        *)
(*                                                                         *)
(* A string is a sequence of one-character strings, so that toUpperCase   *)
(* is computed character by character.  A JavaScript value that may be     *)
(* null/undefined is a sequence of length 0 (absent) or 1 (present).       *)
(***************************************************************************)
EXTENDS Integers, Sequences, FiniteSets, Bags, TLC

\* Bounds of the model.
MaxStocks == 2
MaxTicks == 2
MaxPages == 2
MaxPoints == 2

\* The texts the user can put in the search field (e.target.value).
RawAapl == <<" ", " ", "a", "a", "p", "l", " ">>
RawAaplUpper == <<" ", " ", "A", "A", "P", "L", " ">>
RawBlank == <<" ">>
RawTrimmed == <<"a", "a", "p", "l">>
RawZz == <<"z", "z">>
RawInputs == {<<>>, RawBlank, RawAapl, RawAaplUpper, RawTrimmed, RawZz}
\* The texts typed while the refresh timer is followed through its ticks.
RefreshInputs == {<<>>, RawAapl, RawAaplUpper, RawZz}

\* "Actual Price" as the API can report it: absent, or a number.
ApiPrices == {<<>>, <<0>>, <<1>>}

\* What a GET /stock/{ticker} can do: reject (transport failure), answer
\* success=false, or answer success=true with the data fields.
ApiOutcomes ==
  {[kind |-> "throw", price |-> <<>>], [kind |-> "fail", price |-> <<>>]}
    \cup {[kind |-> "ok", price |-> f] : f \in ApiPrices}

VARIABLES
  mounted,        \* the component is mounted: its cleanups have not run
  searchTicker,   \* useState(''): text of the search field
  stocksList,     \* useState([]): the watchlist, a sequence of entries
  searchError,    \* useState(false): "Ticker not found!"
  searchEqual,    \* useState(false): "Ticker already consulted!"
  isLoading,      \* useState(false): busy flag, disables the button
  lookup,         \* the tickers of the handleSearch lookups in flight, oldest first
  intervals,      \* the armed setInterval timers, each with its closure's stocksList
  ticks,          \* the interval callbacks in flight, a bag of their results
  recording,      \* history: the start order of the ticks is being recorded
  merged          \* history: the sizes (updatedStocks, prev) of the merge that
                  \* was the last step, <<>> after any other step

\* useStockHistory(ticker): one run of queryFn at a time.
VARIABLES
  hStatus,        \* "idle", "running" (queryFn awaits a page), "done", "failed"
  page,           \* let page
  totalPages,     \* let totalPages: a number <<n>>, or <<>> for undefined
  allData,        \* let allData
  historyData,    \* the query's data: <<>> (undefined) or <<what queryFn returned>>
  book,           \* the server's history of the ticker: the size of each page
  requested,      \* history: the page numbers this run requested, in order
  reported        \* history: the total_pages of each response of this run

cvars == <<mounted, searchTicker, stocksList, searchError, searchEqual,
           isLoading, lookup, intervals, ticks, recording, merged>>

hvars == <<hStatus, page, totalPages, allData, historyData, book, requested,
           reported>>

vars == <<cvars, hvars>>

----------------------------------------------------------------------------
\* String.prototype.toUpperCase, on the characters of the model.
ToUpperChar(c) ==
  CASE c = "a" -> "A"
    [] c = "l" -> "L"
    [] c = "p" -> "P"
    [] c = "z" -> "Z"
    [] OTHER -> c

\* Variant: the field keeps the text as typed.
toUpperCaseAsTyped(s) == s

RECURSIVE toUpperCase(_)
toUpperCase(s) ==
  IF s = <<>> THEN <<>> ELSE <<ToUpperChar(Head(s))>> \o toUpperCase(Tail(s))

\* x || 0 on a numeric field: absent and 0 are falsy.
OrZero(f) == IF f = <<>> \/ f[1] = 0 THEN 0 ELSE f[1]

\* The object fetchStockData builds from a successful response.
BuildStock(ticker, outcome) ==
  [ticker |-> ticker, data |-> [currentPrice |-> OrZero(outcome.price)]]

\* Variant: the success flag of the response is not looked at.
fetchStockDataUnchecked(ticker, outcome) ==
  IF outcome.kind # "throw"
    THEN [stock |-> <<BuildStock(ticker, outcome)>>, error |-> FALSE]
    ELSE [stock |-> <<>>, error |-> TRUE]

\* fetchStockData: the stock or null, and whether it called setSearchError(true).
fetchStockData(ticker, outcome) ==
  IF outcome.kind = "ok"
    THEN [stock |-> <<BuildStock(ticker, outcome)>>, error |-> FALSE]
    ELSE [stock |-> <<>>, error |-> TRUE]

\* Variant: no duplicate check before the lookup.
ContainsUnchecked(list, ticker) == FALSE

\* stocksList.some(stock => stock.ticker === searchTicker)
Contains(list, ticker) == \E i \in 1..Len(list) : list[i].ticker = ticker

\* Variant: setStocksList(prev => [newStock, ...prev])
AddStockFirst(prev, newStock) == <<newStock>> \o prev

\* setStocksList(prev => [...prev, newStock])
AddStock(prev, newStock) == Append(prev, newStock)

\* Variant: an effect that returns no cleanup.
KeepInterval(ivs) == ivs

\* The effect of [stocksList]: the cleanup of the previous run clears the
\* interval that run armed; the new run arms one unless the list is empty.
ClearInterval(ivs) == IF ivs = <<>> THEN <<>> ELSE SubSeq(ivs, 1, Len(ivs) - 1)

\* Variant: useEffect(..., []), which keeps an armed timer and its closure.
useEffectKeep(ivs, list) ==
  IF ivs # <<>> THEN ivs ELSE IF Len(list) = 0 THEN <<>> ELSE <<list>>

useEffectRefresh(ivs, list) ==
  IF Len(list) = 0 THEN ClearInterval(ivs) ELSE Append(ClearInterval(ivs), list)

\* The result of one mapped fetch of a tick: updatedStock || stock.
Pending(stock) == [done |-> FALSE, ok |-> FALSE, stock |-> stock]
Settled(stock, r) ==
  [done |-> TRUE, ok |-> r.stock # <<>>,
   stock |-> IF r.stock # <<>> THEN r.stock[1] ELSE stock]

\* Variant: setStocksList(updatedStocks)
MergeReplace(prev, updatedStocks) == updatedStocks

\* setStocksList(prev => prev.map((stock, index) =>
\*     updatedStocks[index] ? updatedStocks[index] : stock))
MergeRefresh(prev, updatedStocks) ==
  [index \in 1..Len(prev) |->
     IF index <= Len(updatedStocks) THEN updatedStocks[index] ELSE prev[index]]

UpdatedStocks(results) == [i \in 1..Len(results) |-> results[i].stock]

----------------------------------------------------------------------------
Init ==
  /\ mounted = TRUE
  /\ searchTicker = <<>>
  /\ stocksList = <<>>
  /\ searchError = FALSE
  /\ searchEqual = FALSE
  /\ isLoading = FALSE
  /\ lookup = <<>>
  /\ intervals = <<>>
  /\ ticks = EmptyBag
  /\ recording = FALSE
  /\ merged = <<>>
  /\ hStatus = "idle"
  /\ page = 1
  /\ totalPages = <<1>>
  /\ allData = <<>>
  /\ historyData = <<>>
  /\ book = <<1>>
  /\ requested = <<>>
  /\ reported = <<>>

\* Variant: an onChange that leaves the "already consulted" flag as it is.
onChangeKeepsEqual(value) ==
  /\ mounted
  /\ searchTicker' = toUpperCase(value)
  /\ searchError' = FALSE
  /\ merged' = <<>>
  /\ UNCHANGED <<mounted, recording, hvars>>
  /\ UNCHANGED <<stocksList, searchEqual, isLoading, lookup, intervals, ticks>>

\* onChange of the search field.
onChange(value) ==
  /\ mounted
  /\ searchTicker' = toUpperCase(value)
  /\ searchError' = FALSE
  /\ searchEqual' = FALSE
  /\ merged' = <<>>
  /\ UNCHANGED <<mounted, recording, hvars>>
  /\ UNCHANGED <<stocksList, isLoading, lookup, intervals, ticks>>

\* Variant: <button onClick={handleSearch}> with no disabled attribute.
ButtonNeverDisabled(loading) == FALSE

\* <button onClick={handleSearch} disabled={isLoading}>
ButtonDisabled(loading) == loading

\* handleSearch up to its await; it runs on a click of the enabled button.
handleSearchEmpty ==
  /\ mounted
  /\ ~ButtonDisabled(isLoading)
  /\ searchTicker = <<>>
  /\ searchError' = FALSE
  /\ merged' = <<>>
  /\ UNCHANGED <<mounted, recording, hvars>>
  /\ UNCHANGED <<searchTicker, stocksList, searchEqual, isLoading, lookup,
                 intervals, ticks>>

handleSearchEqual ==
  /\ mounted
  /\ ~ButtonDisabled(isLoading)
  /\ searchTicker # <<>>
  /\ Contains(stocksList, searchTicker)
  /\ searchEqual' = TRUE
  /\ merged' = <<>>
  /\ UNCHANGED <<mounted, recording, hvars>>
  /\ UNCHANGED <<searchTicker, stocksList, searchError, isLoading, lookup,
                 intervals, ticks>>

handleSearchFetch ==
  /\ mounted
  /\ ~ButtonDisabled(isLoading)
  /\ searchTicker # <<>>
  /\ ~Contains(stocksList, searchTicker)
  /\ Len(stocksList) < MaxStocks
  /\ isLoading' = TRUE
  /\ searchError' = FALSE
  /\ lookup' = Append(lookup, searchTicker)
  /\ merged' = <<>>
  /\ UNCHANGED <<mounted, recording, hvars>>
  /\ UNCHANGED <<searchTicker, stocksList, searchEqual, intervals, ticks>>

handleSearch == handleSearchEmpty \/ handleSearchEqual \/ handleSearchFetch

\* handleSearch after its await: the lookup settled with the given outcome.
handleSearchAdded(outcome) ==
  /\ mounted
  /\ lookup # <<>>
  /\ LET r == fetchStockData(lookup[1], outcome) IN
       /\ r.stock # <<>>
       /\ stocksList' = AddStock(stocksList, r.stock[1])
       /\ intervals' = useEffectRefresh(intervals, stocksList')
  /\ searchTicker' = <<>>
  /\ isLoading' = FALSE
  /\ lookup' = Tail(lookup)
  /\ merged' = <<>>
  /\ UNCHANGED <<mounted, recording, hvars>>
  /\ UNCHANGED <<searchError, searchEqual, ticks>>

handleSearchNotFound(outcome) ==
  /\ mounted
  /\ lookup # <<>>
  /\ LET r == fetchStockData(lookup[1], outcome) IN
       /\ r.stock = <<>>
       /\ searchError' = (r.error \/ searchError)
  /\ isLoading' = FALSE
  /\ lookup' = Tail(lookup)
  /\ merged' = <<>>
  /\ UNCHANGED <<mounted, recording, hvars>>
  /\ UNCHANGED <<searchTicker, stocksList, searchEqual, intervals, ticks>>

\* An armed interval fires: the callback maps the closure's stocksList to
\* one fetch per entry.
intervalFire(k) ==
  /\ mounted
  /\ k \in 1..Len(intervals)
  /\ BagCardinality(ticks) < MaxTicks
  /\ ticks' = ticks (+) SetToBag({
       [results |-> [i \in 1..Len(intervals[k]) |-> Pending(intervals[k][i])],
        age |-> IF recording THEN BagCardinality(ticks) + 1 ELSE 0,
        behind |-> [i \in 1..Len(intervals[k]) |-> FALSE]]})
  /\ merged' = <<>>
  /\ UNCHANGED <<mounted, recording, hvars>>
  /\ UNCHANGED <<searchTicker, stocksList, searchError, searchEqual,
                 isLoading, lookup, intervals>>

\* Variant: Promise.race, which resolves at the first fetch to settle.
FirstDone(results, i) == TRUE

\* Promise.all: fetch i is the last one pending.
AllDoneExcept(results, i) ==
  \A j \in 1..Len(results) : j # i => results[j].done

\* The results of a tick once its fetch i has settled with the given outcome.
SettleResult(tick, i, outcome) ==
  LET stock == tick.results[i].stock IN
    [tick.results EXCEPT
       ![i] = Settled(stock, fetchStockData(stock.ticker, outcome))]

\* One fetch of a tick settles while a sibling is still pending.
refreshFetchSettle(tick, i, outcome) ==
  /\ mounted
  /\ BagIn(tick, ticks)
  /\ i \in 1..Len(tick.results)
  /\ ~tick.results[i].done
  /\ ~AllDoneExcept(tick.results, i)
  /\ LET r == fetchStockData(tick.results[i].stock.ticker, outcome) IN
       searchError' = (r.error \/ searchError)
  /\ ticks' = (ticks (-) SetToBag({tick}))
                (+) SetToBag({[tick EXCEPT
                                 !.results = SettleResult(tick, i, outcome)]})
  /\ merged' = <<>>
  /\ UNCHANGED <<mounted, recording, hvars>>
  /\ UNCHANGED <<searchTicker, stocksList, searchEqual, isLoading, lookup,
                 intervals>>

\* History of a tick still in flight when the tick `by` merges `results`:
\* its place in the start order of the ticks in flight, and which entries
\* now hold a snapshot fetched by a tick that started after it.
Overtaken(other, by, results) ==
  [other EXCEPT
     !.age = IF other.age > by.age THEN other.age - 1 ELSE other.age,
     !.behind = [j \in 1..Len(other.results) |->
                   IF j <= Len(results)
                     THEN by.age > other.age /\ results[j].ok
                     ELSE other.behind[j]]]

\* The last fetch of a tick settles: Promise.all resolves and the callback
\* merges updatedStocks into the list.
refreshMerge(tick, i, outcome) ==
  /\ mounted
  /\ BagIn(tick, ticks)
  /\ i \in 1..Len(tick.results)
  /\ ~tick.results[i].done
  /\ AllDoneExcept(tick.results, i)
  /\ LET r == fetchStockData(tick.results[i].stock.ticker, outcome)
         results == SettleResult(tick, i, outcome) IN
       /\ searchError' = (r.error \/ searchError)
       /\ stocksList' = MergeRefresh(stocksList, UpdatedStocks(results))
       /\ intervals' = useEffectRefresh(intervals, stocksList')
       /\ merged' = <<[covered |-> Len(results), size |-> Len(stocksList)]>>
       /\ ticks' = IF recording
                     THEN BagOfAll(LAMBDA other : Overtaken(other, tick, results),
                                   ticks (-) SetToBag({tick}))
                     ELSE ticks (-) SetToBag({tick})
  /\ UNCHANGED <<mounted, recording, hvars>>
  /\ UNCHANGED <<searchTicker, searchEqual, isLoading, lookup>>

Next ==
  \/ \E value \in RefreshInputs : onChange(value)
  \/ handleSearchEmpty
  \/ handleSearchEqual
  \/ handleSearchFetch
  \/ \E outcome \in ApiOutcomes : handleSearchAdded(outcome)
  \/ \E outcome \in ApiOutcomes : handleSearchNotFound(outcome)
  \/ \E k \in 1..Len(intervals) : intervalFire(k)
  \/ \E tick \in BagToSet(ticks) :
       \E i \in 1..Len(tick.results), outcome \in ApiOutcomes :
         refreshFetchSettle(tick, i, outcome)
  \/ \E tick \in BagToSet(ticks) :
       \E i \in 1..Len(tick.results), outcome \in ApiOutcomes :
         refreshMerge(tick, i, outcome)

Spec == Init /\ [][Next]_vars

\* A lookup in flight settles.
SearchSettle ==
  \E outcome \in ApiOutcomes :
    handleSearchAdded(outcome) \/ handleSearchNotFound(outcome)

\* Every lookup is answered or fails.
SpecFair == Spec /\ WF_vars(SearchSettle)

\* The component is torn down: the cleanup of the last run of the effect
\* clears its interval. No handler runs afterwards, and the state updates of
\* the callbacks still in flight are dropped.
unmount ==
  /\ mounted
  /\ mounted' = FALSE
  /\ intervals' = ClearInterval(intervals)
  /\ merged' = <<>>
  /\ UNCHANGED <<recording, hvars>>
  /\ UNCHANGED <<searchTicker, stocksList, searchError, searchEqual,
                 isLoading, lookup, ticks>>

\* The component from mount to teardown.
NextLifecycle ==
  \/ Next
  \/ unmount

SpecLifecycle == Init /\ [][NextLifecycle]_vars

\* The component with the start order of its ticks recorded.
InitOrdered ==
  /\ mounted = TRUE
  /\ searchTicker = <<>>
  /\ stocksList = <<>>
  /\ searchError = FALSE
  /\ searchEqual = FALSE
  /\ isLoading = FALSE
  /\ lookup = <<>>
  /\ intervals = <<>>
  /\ ticks = EmptyBag
  /\ recording = TRUE
  /\ merged = <<>>
  /\ hStatus = "idle"
  /\ page = 1
  /\ totalPages = <<1>>
  /\ allData = <<>>
  /\ historyData = <<>>
  /\ book = <<1>>
  /\ requested = <<>>
  /\ reported = <<>>

SpecOrdered == InitOrdered /\ [][Next]_vars

\* The search alone, over every input text, within one refresh period (no
\* interval fires).
NextSearch ==
  \/ \E value \in RawInputs : onChange(value)
  \/ handleSearchEmpty
  \/ handleSearchEqual
  \/ handleSearchFetch
  \/ \E outcome \in ApiOutcomes : handleSearchAdded(outcome)
  \/ \E outcome \in ApiOutcomes : handleSearchNotFound(outcome)

SpecSearch == Init /\ [][NextSearch]_vars

----------------------------------------------------------------------------
\* useStockHistory: the pages of GET /history and the loop of queryFn.

\* A point of the history: the k-th point of page p.
PageData(b, p) ==
  IF p \in 1..Len(b) THEN [k \in 1..b[p] |-> <<p, k>>] ELSE <<>>

\* The histories the server can hold: one to MaxPages pages of 0..MaxPoints points.
Books == UNION {[1..n -> 0..MaxPoints] : n \in 1..MaxPages}

\* What a GET /history can do: reject, or answer with the page's data and
\* a pagination object that may be absent, or whose total_pages may be
\* absent or any number.
HistoryResponses ==
  {[kind |-> "reject", pagination |-> FALSE, total |-> <<>>],
   [kind |-> "ok", pagination |-> FALSE, total |-> <<>>]}
    \cup {[kind |-> "ok", pagination |-> TRUE, total |-> t] :
            t \in {<<>>} \cup {<<n>> : n \in (-1)..MaxPages}}

\* Variant: while (page < totalPages)
ContinueBefore(p, total) == total # <<>> /\ p < total[1]

\* while (page <= totalPages): false when totalPages is undefined.
Continue(p, total) == total # <<>> /\ p <= total[1]

\* Variant: the counter is not advanced.
NextPageSame(p) == p

\* page++
NextPage(p) == p + 1

\* response.data.pagination.total_pages throws when pagination is absent.
Throws(resp) == resp.kind = "reject" \/ ~resp.pagination

\* Variant: the loop is wrapped in a catch that returns what was accumulated.
queryFnCatches(data, previous) == [status |-> "done", data |-> <<data>>]

\* queryFn has no catch: a rejected await rejects queryFn, and the query
\* keeps the data it had.
queryFnRejects(data, previous) == [status |-> "failed", data |-> previous]

\* The server's history is whatever it is when the query starts.
queryFn ==
  /\ hStatus # "running"
  /\ hStatus' = "running"
  /\ book' \in Books
  /\ page' = 1
  /\ totalPages' = <<1>>
  /\ allData' = <<>>
  /\ requested' = <<>>
  /\ reported' = <<>>
  /\ UNCHANGED historyData
  /\ UNCHANGED cvars

\* One turn of the do-while whose await resolves.
historyPage(resp) ==
  /\ hStatus = "running"
  /\ Len(requested) <= MaxPages
  /\ ~Throws(resp)
  /\ requested' = Append(requested, page)
  /\ reported' = Append(reported, resp.total)
  /\ allData' = allData \o PageData(book, page)
  /\ totalPages' = resp.total
  /\ page' = NextPage(page)
  /\ IF Continue(page', totalPages')
       THEN /\ hStatus' = "running"
            /\ UNCHANGED historyData
       ELSE /\ hStatus' = "done"
            /\ historyData' = <<allData'>>
  /\ UNCHANGED book
  /\ UNCHANGED cvars

\* One turn of the do-while whose await rejects, or whose response has no
\* pagination object.
historyPageFails(resp) ==
  /\ hStatus = "running"
  /\ Len(requested) <= MaxPages
  /\ Throws(resp)
  /\ requested' = Append(requested, page)
  /\ LET data == IF resp.kind = "reject"
                   THEN allData ELSE allData \o PageData(book, page)
         end == queryFnRejects(data, historyData) IN
       /\ allData' = data
       /\ hStatus' = end.status
       /\ historyData' = end.data
  /\ reported' = IF resp.kind = "reject" THEN reported ELSE Append(reported, <<>>)
  /\ UNCHANGED <<page, totalPages, book>>
  /\ UNCHANGED cvars

HistoryStep ==
  \E resp \in HistoryResponses : historyPage(resp) \/ historyPageFails(resp)

NextHistory ==
  \/ queryFn
  \/ \E resp \in HistoryResponses : historyPage(resp)
  \/ \E resp \in HistoryResponses : historyPageFails(resp)

SpecHistory == Init /\ [][NextHistory]_vars

\* Every request is answered or fails.
SpecHistoryFair == SpecHistory /\ WF_vars(HistoryStep)

----------------------------------------------------------------------------
\* Vocabulary of the properties.

TickerAAPL == <<"A", "A", "P", "L">>

\* The steps of the component, by what they are.
SearchSettles(outcome) ==
  handleSearchAdded(outcome) \/ handleSearchNotFound(outcome)

Failed(outcome) == outcome.kind \in {"throw", "fail"}

HasTicker(list, ticker) == \E k \in 1..Len(list) : list[k].ticker = ticker

Tickers(list) == [k \in 1..Len(list) |-> list[k].ticker]

\* Case folding, for comparing tickers case-insensitively.
FoldChar(c) ==
  CASE c = "A" -> "a"
    [] c = "L" -> "l"
    [] c = "P" -> "p"
    [] c = "Z" -> "z"
    [] OTHER -> c

Fold(s) == [k \in 1..Len(s) |-> FoldChar(s[k])]

\* String.prototype.trim on the characters of the model.
RECURSIVE TrimLeft(_)
TrimLeft(s) == IF s # <<>> /\ Head(s) = " " THEN TrimLeft(Tail(s)) ELSE s

RECURSIVE TrimRight(_)
TrimRight(s) ==
  IF s # <<>> /\ s[Len(s)] = " " THEN TrimRight(SubSeq(s, 1, Len(s) - 1)) ELSE s

Trim(s) == TrimRight(TrimLeft(s))

----------------------------------------------------------------------------
\* C1: in every reachable state the watchlist holds at most one entry per
\* ticker, tickers compared case-insensitively.
C1_OneEntryPerTicker ==
  \A i, j \in 1..Len(stocksList) :
    Fold(stocksList[i].ticker) = Fold(stocksList[j].ticker) => i = j

\* A full watchlist on which a duplicate search was just refused while a
\* refresh tick is in flight.
C1_Witness ==
  /\ Len(stocksList) = 2
  /\ searchEqual
  /\ ticks # EmptyBag

\* C2 (as claimed): at a merge, every entry whose fetch failed has the data
\* it had immediately before the merge, and a merge whose every fetch failed
\* leaves the list identical.
C2_FailedFetchKeepsEntry ==
  [][\A tick \in BagToSet(ticks) :
       \A i \in 1..Len(tick.results), outcome \in ApiOutcomes :
         refreshMerge(tick, i, outcome) =>
           LET results == SettleResult(tick, i, outcome) IN
             /\ \A j \in 1..Len(results) :
                  ~results[j].ok => stocksList'[j] = stocksList[j]
             /\ (\A j \in 1..Len(results) : ~results[j].ok)
                  => stocksList' = stocksList]_vars

\* C3: a merge (the steps that record their sizes in merged) changes neither
\* the length of the watchlist nor the sequence of its tickers, also when the
\* list grew after the tick issued its fetches.
C3_MergeKeepsTickers ==
  [][merged' # <<>> =>
       /\ Len(stocksList') = Len(stocksList)
       /\ Tickers(stocksList') = Tickers(stocksList)]_vars

\* The last step merged the results of a one-entry tick into a list that a
\* search had grown to two entries.
C3_Witness == merged = <<[covered |-> 1, size |-> 2]>>

\* C4 (as claimed): at the merge of a tick over two tracked tickers where one
\* fetch failed and the other succeeded, the other entry is the new snapshot
\* and the failing entry is as it was before the merge.
C4_OneOfTwoFails ==
  [][\A tick \in BagToSet(ticks) :
       \A i \in 1..Len(tick.results), outcome \in ApiOutcomes :
         (refreshMerge(tick, i, outcome) /\ Len(tick.results) = 2) =>
           LET results == SettleResult(tick, i, outcome) IN
             \A f, g \in 1..2 :
               (~results[f].ok /\ results[g].ok) =>
                 /\ stocksList'[g] = results[g].stock
                 /\ stocksList'[f] = stocksList[f]]_vars

\* C5 (as claimed): a failed fetch of a refresh tick leaves searchError and
\* searchEqual as they were.
C5_RefreshFailureInvisible ==
  [][\A tick \in BagToSet(ticks) :
       \A i \in 1..Len(tick.results), outcome \in ApiOutcomes :
         (Failed(outcome) /\ (refreshFetchSettle(tick, i, outcome)
                                \/ refreshMerge(tick, i, outcome))) =>
           /\ searchError' = searchError
           /\ searchEqual' = searchEqual]_vars

\* C6 (as claimed): typing "  aapl " puts the ticker "AAPL" in the field, and
\* a search of it that is Added leaves exactly one entry whose ticker is "AAPL".
C6_NormalizedAapl ==
  [][/\ onChange(RawAapl) => searchTicker' = TickerAAPL
     /\ \A outcome \in ApiOutcomes :
          (handleSearchAdded(outcome) /\ lookup = <<toUpperCase(RawAapl)>>) =>
            Cardinality({k \in 1..Len(stocksList') :
                           stocksList'[k].ticker = TickerAAPL}) = 1]_vars

\* C7: a search of a ticker already in the watchlist sets searchEqual, issues
\* no lookup, leaves the busy flag and the watchlist as they were.
C7_AlreadyTracked ==
  [][(handleSearch /\ HasTicker(stocksList, searchTicker)) =>
       /\ searchEqual'
       /\ lookup' = lookup
       /\ lookup' = <<>>
       /\ isLoading' = isLoading
       /\ stocksList' = stocksList]_vars

\* The duplicate search was refused: the flag is up, nothing is in flight.
C7_Witness ==
  /\ searchEqual
  /\ HasTicker(stocksList, searchTicker)
  /\ lookup = <<>>
  /\ ~isLoading

\* C8: a lookup that answers success=false or rejects ends the search with
\* searchError set and the watchlist unchanged, and the step is the same step
\* for both causes.
C8_NotFound ==
  [][\A outcome \in ApiOutcomes :
       (SearchSettles(outcome) /\ Failed(outcome)) =>
         /\ searchError'
         /\ stocksList' = stocksList
         /\ \A other \in ApiOutcomes : Failed(other) => SearchSettles(other)]_vars

\* A search of a typed ticker ended NotFound on a watchlist that never had an
\* entry, so that no refresh ever ran.
C8_Witness ==
  /\ searchError
  /\ searchTicker # <<>>
  /\ stocksList = <<>>
  /\ lookup = <<>>
  /\ ~isLoading

C10_EmptyIsNoOp ==
  [][(handleSearch /\ Trim(searchTicker) = <<>>) =>
       /\ lookup' = lookup
       /\ stocksList' = stocksList
       /\ ~searchError'
       /\ ~searchEqual']_vars

----------------------------------------------------------------------------
\* The history fetcher.

RECURSIVE FlattenTo(_, _)
FlattenTo(b, n) == IF n = 0 THEN <<>> ELSE FlattenTo(b, n - 1) \o PageData(b, n)

\* Every response so far reported the number of pages the server holds.
Consistent == \A k \in 1..Len(reported) : reported[k] = <<Len(book)>>

\* total_pages is missing, or a number below 1.
Malformed(t) == t = <<>> \/ t[1] < 1

\* C11: the pages are requested as 1, 2, ... in increasing order, and a run
\* whose responses all report the server's number of pages N ends with
\* exactly the requests 1..N and the concatenation of the pages in page order.
C11_AllPagesInOrder ==
  /\ requested = [k \in 1..Len(requested) |-> k]
  /\ (hStatus = "done" /\ Consistent) =>
       /\ requested = [k \in 1..Len(book) |-> k]
       /\ allData = FlattenTo(book, Len(book))
       /\ historyData = <<allData>>

\* The pages [p1, p2] and [p3] with total_pages 2: two requests, three points.
C11_Witness ==
  /\ hStatus = "done"
  /\ book = <<2, 1>>
  /\ reported = <<<<2>>, <<2>>>>
  /\ requested = <<1, 2>>
  /\ allData = <<<<1, 1>>, <<1, 2>>, <<2, 1>>>>

\* C12 (as claimed): a run whose first response has a missing or invalid
\* total_pages ends done after exactly one request, with that page's data.
C12_MalformedIsSinglePage ==
  (hStatus # "running" /\ Len(reported) >= 1 /\ Malformed(reported[1])) =>
    /\ hStatus = "done"
    /\ requested = <<1>>
    /\ historyData = <<PageData(book, 1)>>

\* C13: a page request that rejects fails the run and leaves the query's
\* data as it was (no partial result), and a failed run requests nothing more.
C13_FailureFailsAll ==
  [][/\ \A resp \in HistoryResponses :
          (resp.kind = "reject"
             /\ (historyPage(resp) \/ historyPageFails(resp))) =>
            /\ hStatus' = "failed"
            /\ historyData' = historyData
     /\ hStatus = "failed" =>
          \/ hStatus' = "failed" /\ requested' = requested
          \/ hStatus' = "running" /\ requested' = <<>>]_vars

\* The second page was refused after the first had been accumulated.
C13_Witness ==
  /\ hStatus = "failed"
  /\ requested = <<1, 2>>
  /\ reported = <<<<2>>>>
  /\ allData # <<>>
  /\ historyData = <<>>

----------------------------------------------------------------------------
\* C18: the busy flag is set exactly while a lookup is in flight, at most one
\* lookup is in flight, and every search that set the flag clears it.
C18_OneSearchAtATime ==
  /\ [](Len(lookup) <= 1 /\ (isLoading <=> lookup # <<>>))
  /\ isLoading ~> ~isLoading

\* A lookup is in flight while the field already holds another text.
C18_Witness ==
  /\ isLoading
  /\ Len(lookup) = 1
  /\ searchTicker # <<>>
  /\ searchTicker # lookup[1]

\* C20: whenever searchEqual is set, the field is not empty and holds the
\* ticker of an entry of the watchlist.
C20_EqualMeansTracked ==
  searchEqual => (searchTicker # <<>> /\ HasTicker(stocksList, searchTicker))

\* The flag stayed up over a refresh merge.
C20_Witness ==
  /\ searchEqual
  /\ merged # <<>>

\* C16: a tick that fires issues one fetch, still pending, per entry of the
\* watchlist of that moment, for the same tickers in the same order, and
\* every armed timer holds the current watchlist.
C16_TickFetchesCurrent ==
  /\ [](\A k \in 1..Len(intervals) : intervals[k] = stocksList)
  /\ [][BagCardinality(ticks') > BagCardinality(ticks) =>
          \E tick \in BagToSet(ticks') :
            /\ CopiesIn(tick, ticks') > CopiesIn(tick, ticks)
            /\ Tickers(UpdatedStocks(tick.results)) = Tickers(stocksList)
            /\ \A i \in 1..Len(tick.results) : ~tick.results[i].done]_vars

\* A tick that fired before the second add is still in flight beside one
\* that fired after the add re-armed the timer.
C16_Witness ==
  /\ Len(stocksList) = 2
  /\ \E old, new \in BagToSet(ticks) :
       /\ Len(old.results) = 1
       /\ Len(new.results) = 2
       /\ \A i \in 1..2 : ~new.results[i].done

\* The fetches of a tick that have not settled.
PendingFetches(tick) == {i \in 1..Len(tick.results) : ~tick.results[i].done}

\* The watchlist a tick would merge once fetch i and then fetch j settled.
MergedAfter(tick, i, oi, j, oj) ==
  LET first == [tick EXCEPT !.results = SettleResult(tick, i, oi)] IN
    MergeRefresh(stocksList, UpdatedStocks(SettleResult(first, j, oj)))

\* C17: a merge is the step of a tick whose last pending fetch settles, and
\* for a tick with several fetches pending, whichever settles first, with
\* whatever outcomes, the merged watchlist is the same.
C17_JoinThenMerge ==
  /\ [](\A tick \in BagToSet(ticks) :
          \A i, j \in PendingFetches(tick), oi, oj \in ApiOutcomes :
            i < j => MergedAfter(tick, i, oi, j, oj)
                       = MergedAfter(tick, j, oj, i, oi))
  /\ [][merged' # <<>> =>
          \E tick \in BagToSet(ticks) :
            /\ CopiesIn(tick, ticks') < CopiesIn(tick, ticks)
            /\ Cardinality(PendingFetches(tick)) = 1
            /\ merged'[1].covered = Len(tick.results)]_vars

\* A tick of two fetches has just merged while another tick is in flight.
C17_Witness ==
  /\ merged # <<>>
  /\ merged[1].covered = 2
  /\ ticks # EmptyBag

\* C15: while the component is mounted and the watchlist is not empty exactly
\* one refresh timer is armed, and none is armed when the watchlist is empty
\* or the component has been torn down.
C15_OneTimerWhileActive ==
  /\ (mounted /\ stocksList # <<>>) => Len(intervals) = 1
  /\ (~mounted \/ stocksList = <<>>) => Len(intervals) = 0

\* Torn down with two entries tracked and a tick in flight.
C15_Witness ==
  /\ ~mounted
  /\ Len(stocksList) = 2
  /\ ticks # EmptyBag

\* C19 (as claimed): a merge leaves unchanged every entry that holds a
\* snapshot fetched by a tick that started after the merging tick.
C19_FreshnessMonotonic ==
  [][\A tick \in BagToSet(ticks) :
       \A i \in 1..Len(tick.results), outcome \in ApiOutcomes :
         refreshMerge(tick, i, outcome) =>
           \A j \in 1..Len(tick.results) :
             tick.behind[j] => stocksList'[j] = stocksList[j]]_vars

====
